---- MODULE Spec2Model ----
(***************************************************************************)
(* The REST request-response channel of a Flower SuperNode                 *)
(* (flwr/client/rest_client/connection.py, http_request_response).         *)
(*                                                                         *)
(* One primary control flow calls create_node / delete_node / receive /    *)
(* send; the HeartbeatSender's background thread calls                     *)
(* send_node_heartbeat.  The SuperLink (coordinator) and the transport are *)
(* the environment: every request gets a transport response drawn from     *)
(* Responses, and the SuperLink keeps the pushed messages and objects.     *)
(* A request that gets no usable response is one whose status or           *)
(* content-type makes _request return None; connection errors are left to  *)
(* the RetryInvoker, which retries the post until it has a response, as    *)
(* long as its max_tries is None.  The finally block of the context        *)
(* manager sets max_tries to 1: the delete-node request it makes can then  *)
(* end in a RequestsConnectionError.                                       *)
(***************************************************************************)
EXTENDS Integers, Sequences, FiniteSets, TLC

None == "None"

(***************************************************************************)
(* The data universe: node ids, and three messages whose content           *)
(* decomposes into 1, 2 and 3 distinct objects.  In m3 the object c1 is    *)
(* referenced from two branches (directly, and below a).                   *)
(***************************************************************************)
\* node ids, written as strings
NodeIds == {"7", "8"}

Msgs == {"m1", "m2", "m3"}

ObjectIds == {"m1", "m2", "m3", "a", "c1"}

\* metadata.dst_node_id of each message
DstNodeId == [m \in Msgs |-> IF m = "m2" THEN "8" ELSE "7"]

\* metadata.run_id of each message
RunId == [m \in Msgs |-> IF m = "m2" THEN "run2" ELSE "run1"]

\* The in-memory (inflated) objects: own data plus the child objects.
ObjC1 == [data |-> "bytes_c1", children |-> <<>>]

ObjA == [data |-> "bytes_a", children |-> <<ObjC1>>]

ObjM1 == [data |-> "msg_1", children |-> <<>>]

ObjM2 == [data |-> "msg_2", children |-> <<ObjC1>>]

ObjM3 == [data |-> "msg_3", children |-> <<ObjC1, ObjA>>]

Objects == [id \in ObjectIds |->
              CASE id = "c1" -> ObjC1
                [] id = "a"  -> ObjA
                [] id = "m1" -> ObjM1
                [] id = "m2" -> ObjM2
                [] id = "m3" -> ObjM3]

\* InflatableObject.object_id: the content hash, here the inverse of Objects.
object_id(obj) == CHOOSE id \in ObjectIds : Objects[id] = obj

\* InflatableObject.deflate: own data plus the ids (not the bytes) of the children.
deflate(obj) ==
    [data |-> obj.data,
     children_ids |-> [i \in DOMAIN obj.children |-> object_id(obj.children[i])]]

\* get_object_tree: the ObjectTree {object_id, children} of an object.
RECURSIVE get_object_tree(_)
get_object_tree(obj) ==
    [object_id |-> object_id(obj),
     children |-> [i \in DOMAIN obj.children |-> get_object_tree(obj.children[i])]]

\* Concatenation of a sequence of sequences.
RECURSIVE Flatten(_)
Flatten(ss) == IF ss = <<>> THEN <<>> ELSE Head(ss) \o Flatten(Tail(ss))

\* iterate_object_tree: post-order walk, one entry per tree node (so an id
\* referenced from two branches appears twice).
RECURSIVE iterate_object_tree(_)
iterate_object_tree(tree) ==
    Flatten([i \in DOMAIN tree.children |-> iterate_object_tree(tree.children[i])])
        \o <<tree>>

Range(s) == {s[i] : i \in DOMAIN s}

\* Number of occurrences of x in the sequence s.
Count(s, x) == Cardinality({i \in DOMAIN s : s[i] = x})

\* get_all_nested_objects: dict object_id -> object of the object and all its
\* descendants.
get_all_nested_objects(obj) ==
    LET ids == {t.object_id : t \in Range(iterate_object_tree(get_object_tree(obj)))}
    IN  [id \in ids |-> Objects[id]]

\* inflate_object_from_contents: rebuild the object with id `id` from the
\* dict id -> deflated content.
RECURSIVE inflate_object_from_contents(_, _)
inflate_object_from_contents(id, contents) ==
    LET c == contents[id]
    IN  [data |-> c.data,
         children |-> [i \in DOMAIN c.children_ids |->
                         inflate_object_from_contents(c.children_ids[i], contents)]]

\* message_to_proto(remove_content_from_message(message)): the metadata alone.
message_to_proto(m) ==
    [message_id |-> m, dst_node_id |-> DstNodeId[m], run_id |-> RunId[m]]

(***************************************************************************)
(* The transport.                                                          *)
(***************************************************************************)
HTTP_OK == 200

HTTP_ERROR == 500

ContentTypes == {"missing", "application/protobuf", "text/html"}

\* What requests.post can return: a status code and a content-type header.
Responses == [status_code : {HTTP_OK, HTTP_ERROR}, content_type : ContentTypes]

\* Variant: the status code is not looked at.
_request_any_status(res) ==
    IF res.content_type = "missing" THEN None
    ELSE IF res.content_type # "application/protobuf" THEN None
    ELSE "ok"

\* _request: the decoded response ("ok" stands for the parsed protobuf, whose
\* fields the calling action draws), or None.
_request(res) ==
    IF res.status_code # HTTP_OK THEN None
    ELSE IF res.content_type = "missing" THEN None
    ELSE IF res.content_type # "application/protobuf" THEN None
    ELSE "ok"

\* The SuperLink handled the request (whatever the client makes of the answer).
Handled(res) == res.status_code = HTTP_OK

(***************************************************************************)
(* State.                                                                  *)
(***************************************************************************)
VARIABLES
    node,         \* the shared variable `node`: None or the node id
    hb_running,   \* the HeartbeatSender's thread is running
    pc,           \* position of the primary control flow
    ret,          \* [op, val, res]: the running or last call, what it returned,
                  \* and whether its latest request got a response
    hbpc,         \* position of the heartbeat thread inside send_node_heartbeat
    hb_node,      \* the node put in the SendNodeHeartbeatRequest under way
    hb_result,    \* what the last send_node_heartbeat returned
    store,        \* SuperLink: dict object id -> stored bytes
    inbox,        \* SuperLink: the messages pushed and not yet confirmed
    msg,          \* the message id of message_proto (receive), of message (send)
    in_message,   \* receive: in_message, {} for None
    pulled,       \* receive: the messages_list of the pull-messages response
    pending,      \* pull_objects / push_objects: requests still to make, per id
    contents,     \* receive: all_object_contents (a dict), as far as pulled
    objreqs,      \* pull-object / push-object requests made by the call, per id
    confirms,     \* confirm-message-received requests made by the call
    listed,       \* send: the ids the response listed for this message
    push_failed,  \* send: a push-object request got no response
    unregSent,    \* a delete-node request was sent and no node created since
    scope,        \* the context manager: "open" (the with-body runs), "finally"
                  \* (line 469 done), "teardown" (delete_node of line 470
                  \* called), "closed", "raised" (left by an exception) or
                  \* "aborted" (the heartbeat escalated)
    max_tries,    \* retry_invoker.max_tries: {} for None, or {n}
    exit_kind,    \* how the with-body was left: "none", "normal", "exception"
    teardowns,    \* delete_node calls made by the finally block
    req,          \* the latest request of the running or last call
    hb_req        \* the requests of the running or last send_node_heartbeat

vars == <<node, hb_running, pc, ret, hbpc, hb_node, hb_result, store, inbox,
          msg, in_message, pulled, pending, contents, objreqs, confirms, listed,
          push_failed, unregSent, scope, max_tries, exit_kind, teardowns, req,
          hb_req>>

\* the variables of the context manager
sess == <<scope, max_tries, exit_kind, teardowns>>

Ret(op, val, res) == [op |-> op, val |-> val, res |-> res]

\* What a request made of the transport's response, for ret.res.
Got(res) == IF _request(res) = None THEN "no_response" ELSE "response"

\* lines 82-91: the api paths
PATH_CREATE_NODE == "api/v0/fleet/create-node"

PATH_DELETE_NODE == "api/v0/fleet/delete-node"

PATH_PULL_MESSAGES == "/api/v0/fleet/pull-messages"

PATH_PUSH_MESSAGES == "/api/v0/fleet/push-messages"

PATH_PULL_OBJECT == "/api/v0/fleet/pull-object"

PATH_PUSH_OBJECT == "/api/v0/fleet/push-object"

PATH_SEND_NODE_HEARTBEAT == "api/v0/fleet/send-node-heartbeat"

PATH_GET_RUN == "/api/v0/fleet/get-run"

PATH_GET_FAB == "/api/v0/fleet/get-fab"

PATH_CONFIRM_MESSAGE_RECEIVED == "/api/v0/fleet/confirm-message-received"

Paths == {PATH_CREATE_NODE, PATH_DELETE_NODE, PATH_PULL_MESSAGES,
          PATH_PUSH_MESSAGES, PATH_PULL_OBJECT, PATH_PUSH_OBJECT,
          PATH_SEND_NODE_HEARTBEAT, PATH_GET_RUN, PATH_GET_FAB,
          PATH_CONFIRM_MESSAGE_RECEIVED}

\* line 186: _request(..., retry: bool = True)
retry_default == TRUE

\* Variant: send_node_heartbeat leaves retry at its default.
retry_heartbeat_default == TRUE

\* line 245: send_node_heartbeat calls _request(..., retry=False)
retry_heartbeat == FALSE

\* lines 204-207: a request to api_path: through retry_invoker.invoke(post),
\* with the max_tries of the moment, or by post() itself.  `response` is
\* <<>>, or <<res>> where the transport's response is kept.
Request(api_path, retry, response) ==
    [path |-> api_path, retry |-> retry,
     max_tries |-> IF retry THEN max_tries ELSE {},
     response |-> response]

\* no request made
NoReq == [path |-> "none", retry |-> FALSE, max_tries |-> {}, response |-> <<>>]

\* send_node_heartbeat: no transport request made yet
NoHbReq == [posts |-> 0, retry |-> FALSE, got |-> "none"]

NoIds == [id \in ObjectIds |-> 0]

\* the empty dict
NoContents == [id \in {} |-> None]

\* The locals of receive() and send(), as they are when a call begins.
FreshCall ==
    /\ msg' = None
    /\ in_message' = {}
    /\ pulled' = <<>>
    /\ pending' = NoIds
    /\ contents' = NoContents
    /\ objreqs' = NoIds
    /\ confirms' = 0
    /\ listed' = {}
    /\ push_failed' = FALSE

Init ==
    /\ node = None
    /\ hb_running = FALSE
    /\ pc = "idle"
    /\ ret = Ret("none", None, "no_request")
    /\ hbpc = "idle"
    /\ hb_node = None
    /\ hb_result = "None"
    /\ store = NoContents
    /\ inbox = {}
    /\ msg = None
    /\ in_message = {}
    /\ pulled = <<>>
    /\ pending = NoIds
    /\ contents = NoContents
    /\ objreqs = NoIds
    /\ confirms = 0
    /\ listed = {}
    /\ push_failed = FALSE
    /\ unregSent = FALSE
    /\ scope = "open"
    /\ max_tries = {}
    /\ exit_kind = "none"
    /\ teardowns = 0
    /\ req = NoReq
    /\ hb_req = NoHbReq

(***************************************************************************)
(* HeartbeatSender (flwr.common.heartbeat): start() starts the thread;     *)
(* stop() returns once the thread is quiescent, so it waits for a probe    *)
(* under way.                                                              *)
(***************************************************************************)
heartbeat_sender_start == hb_running' = TRUE

heartbeat_sender_stop == hbpc = "idle" /\ hb_running' = FALSE

(***************************************************************************)
(* send_node_heartbeat, called by the heartbeat thread while it runs.  A   *)
(* RuntimeError raised by it makes the HeartbeatSender abort the process.  *)
(***************************************************************************)
\* lines 234-241: read `node`, build the request around it
send_node_heartbeat_begin ==
    /\ hb_running
    /\ hbpc = "idle"
    /\ scope # "aborted"
    /\ IF node = None
       THEN /\ hb_result' = "False"
            /\ UNCHANGED <<hbpc, hb_node>>
       ELSE /\ hb_node' = node
            /\ hbpc' = "sending"
            /\ hb_result' = "None"
    /\ hb_req' = NoHbReq
    /\ UNCHANGED <<node, hb_running, pc, ret, store, inbox, msg, in_message,
                   pulled, pending, contents, objreqs, confirms, listed,
                   push_failed, unregSent, sess, req>>

\* Variant: a response that says success = False is answered like no response.
send_node_heartbeat_result_lenient(res, success) ==
    IF _request(res) = None \/ ~success THEN "False" ELSE "True"

\* lines 247-256: False, RuntimeError or True
send_node_heartbeat_result(res, success) ==
    IF _request(res) = None THEN "False"
    ELSE IF ~success THEN "RuntimeError"
    ELSE "True"

\* what came back to the probe
HeartbeatGot(res, success) ==
    IF ~Handled(res) \/ res.content_type # "application/protobuf"
    THEN "no_response"
    ELSE IF success THEN "ack" ELSE "nack"

\* lines 244-256: one request, by post() itself; then the result
send_node_heartbeat_request ==
    /\ hbpc = "sending"
    /\ \E res \in Responses, success \in BOOLEAN :
         /\ hb_result' = send_node_heartbeat_result(res, success)
         /\ hb_req' = [posts |-> hb_req.posts + 1,
                       retry |-> Request(PATH_SEND_NODE_HEARTBEAT,
                                         retry_heartbeat, <<>>).retry,
                       got |-> HeartbeatGot(res, success)]
    /\ scope' = IF hb_result' = "RuntimeError" THEN "aborted" ELSE scope
    /\ hbpc' = "idle"
    /\ hb_node' = None
    /\ UNCHANGED <<node, hb_running, pc, ret, store, inbox, msg, in_message,
                   pulled, pending, contents, objreqs, confirms, listed,
                   push_failed, unregSent, max_tries, exit_kind, teardowns,
                   req>>

(***************************************************************************)
(* create_node                                                             *)
(***************************************************************************)
\* Variant: the heartbeat sender is started before the response is looked at.
create_node_failed_started ==
    /\ heartbeat_sender_start
    /\ ret' = Ret("create_node", None, "no_response")
    /\ UNCHANGED <<node, unregSent, pc>>

\* lines 266-267: the response is None: return None
create_node_failed ==
    /\ ret' = Ret("create_node", None, "no_response")
    /\ UNCHANGED <<node, hb_running, unregSent, pc>>

\* Variant: the heartbeat sender is started before the node is remembered.
create_node_ok_start_first(id) ==
    /\ heartbeat_sender_start
    /\ pc' = "cn_start"
    /\ ret' = Ret("create_node", "running", "response")
    /\ UNCHANGED <<node, unregSent>>

\* lines 269-270: remember the node
create_node_ok(id) ==
    /\ node' = id
    /\ pc' = "cn_start"
    /\ ret' = Ret("create_node", "running", "response")
    /\ UNCHANGED <<hb_running, unregSent>>

\* lines 262-270: one create-node request and what follows from its response
create_node ==
    /\ pc = "idle"
    /\ scope = "open"
    /\ \E res \in Responses, id \in NodeIds :
         IF _request(res) = None
         THEN create_node_failed
         ELSE create_node_ok(id)
    /\ req' = Request(PATH_CREATE_NODE, retry_default, <<>>)
    /\ FreshCall
    /\ UNCHANGED <<hbpc, hb_node, hb_result, store, inbox, sess, hb_req>>

\* lines 271-273: start the heartbeat sender, return the node id
create_node_start ==
    /\ pc = "cn_start"
    /\ heartbeat_sender_start
    /\ unregSent' = FALSE
    /\ ret' = Ret("create_node", node, "response")
    /\ pc' = "idle"
    /\ UNCHANGED <<node, hbpc, hb_node, hb_result, store, inbox, msg,
                   in_message, pulled, pending, contents, objreqs, confirms,
                   listed, push_failed, sess, req, hb_req>>

(***************************************************************************)
(* delete_node, called by the with-body or by the finally block (line 470) *)
(***************************************************************************)
\* Variant: the heartbeat sender is left running.
delete_node_begin_no_stop ==
    /\ pc = "idle"
    /\ scope \in {"open", "finally"}
    /\ IF node = None
       THEN /\ ret' = Ret("delete_node", None, "no_request")
            /\ UNCHANGED pc
       ELSE /\ pc' = "dn_stopped"
            /\ ret' = Ret("delete_node", "running", "no_request")
    /\ scope' = IF scope = "finally" THEN "teardown" ELSE scope
    /\ teardowns' = IF scope = "finally" THEN teardowns + 1 ELSE teardowns
    /\ req' = NoReq
    /\ FreshCall
    /\ UNCHANGED <<node, hb_running, hbpc, hb_node, hb_result, store, inbox,
                   unregSent, max_tries, exit_kind, hb_req>>

\* Variant: the node is not looked at.
delete_node_begin_no_guard ==
    /\ pc = "idle"
    /\ scope \in {"open", "finally"}
    /\ heartbeat_sender_stop
    /\ pc' = "dn_stopped"
    /\ ret' = Ret("delete_node", "running", "no_request")
    /\ scope' = IF scope = "finally" THEN "teardown" ELSE scope
    /\ teardowns' = IF scope = "finally" THEN teardowns + 1 ELSE teardowns
    /\ req' = NoReq
    /\ FreshCall
    /\ UNCHANGED <<node, hbpc, hb_node, hb_result, store, inbox, unregSent,
                   max_tries, exit_kind, hb_req>>

\* lines 278-283: no node: log and return; else stop the heartbeat sender
delete_node_begin ==
    /\ pc = "idle"
    /\ scope \in {"open", "finally"}
    /\ IF node = None
       THEN /\ ret' = Ret("delete_node", None, "no_request")
            /\ UNCHANGED <<pc, hb_running>>
       ELSE /\ heartbeat_sender_stop
            /\ pc' = "dn_stopped"
            /\ ret' = Ret("delete_node", "running", "no_request")
    /\ scope' = IF scope = "finally" THEN "teardown" ELSE scope
    /\ teardowns' = IF scope = "finally" THEN teardowns + 1 ELSE teardowns
    /\ req' = NoReq
    /\ FreshCall
    /\ UNCHANGED <<node, hbpc, hb_node, hb_result, store, inbox, unregSent,
                   max_tries, exit_kind, hb_req>>

\* lines 286-289: the DeleteNodeRequest goes out
delete_node_send ==
    /\ pc = "dn_stopped"
    /\ pc' = "dn_wait"
    /\ unregSent' = TRUE
    /\ req' = Request(PATH_DELETE_NODE, retry_default, <<>>)
    /\ UNCHANGED <<node, hb_running, ret, hbpc, hb_node, hb_result, store,
                   inbox, msg, in_message, pulled, pending, contents, objreqs,
                   confirms, listed, push_failed, sess, hb_req>>

\* lines 290-294: no response: return; else clear the node
delete_node_cleanup(res) ==
    IF _request(res) = None
    THEN UNCHANGED node
    ELSE node' = None

\* Variant: an exception of the with-body is raised again.
scope_closed_reraise(kind) ==
    IF kind = "exception" THEN "raised" ELSE "closed"

\* lines 462-472: `except Exception` logs the exception, `except
\* RequestsConnectionError` passes: the context manager ends without raising
scope_closed(kind) == "closed"

\* the scope after delete_node has returned or raised
scope_after_delete ==
    IF scope = "teardown" THEN scope_closed(exit_kind) ELSE scope

delete_node_response ==
    /\ pc = "dn_wait"
    /\ \E res \in Responses :
         /\ delete_node_cleanup(res)
         /\ ret' = Ret("delete_node", None, Got(res))
    /\ pc' = "idle"
    /\ scope' = scope_after_delete
    /\ UNCHANGED <<hb_running, hbpc, hb_node, hb_result, store, inbox, msg,
                   in_message, pulled, pending, contents, objreqs, confirms,
                   listed, push_failed, unregSent, max_tries, exit_kind,
                   teardowns, req, hb_req>>

\* lines 205, 289: with max_tries set, retry_invoker.invoke gives up and
\* raises the RequestsConnectionError of the last post; line 471 catches it
delete_node_gave_up ==
    /\ pc = "dn_wait"
    /\ max_tries # {}
    /\ ret' = Ret("delete_node", "RequestsConnectionError", "no_response")
    /\ pc' = "idle"
    /\ scope' = scope_after_delete
    /\ UNCHANGED <<node, hb_running, hbpc, hb_node, hb_result, store, inbox,
                   msg, in_message, pulled, pending, contents, objreqs,
                   confirms, listed, push_failed, unregSent, max_tries,
                   exit_kind, teardowns, req, hb_req>>

(***************************************************************************)
(* The end of the with-body (lines 459-472).                               *)
(***************************************************************************)
\* Variant: max_tries is left as it is.
finally_block_keep_tries(kind) ==
    /\ IF node # None
       THEN /\ scope' = "finally"
            /\ UNCHANGED max_tries
       ELSE /\ scope' = scope_closed(kind)
            /\ UNCHANGED max_tries
    /\ exit_kind' = kind

\* lines 465-469: a node is there: max_tries = 1, then delete_node() is to
\* be called; no node: nothing to do
finally_block(kind) ==
    /\ IF node # None
       THEN /\ max_tries' = {1}
            /\ scope' = "finally"
       ELSE /\ scope' = scope_closed(kind)
            /\ UNCHANGED max_tries
    /\ exit_kind' = kind

\* what leaving the with-body does to the rest of the state
LeaveBody ==
    /\ ret' = Ret("exit", None, "no_request")
    /\ req' = NoReq
    /\ FreshCall
    /\ UNCHANGED <<node, hb_running, pc, hbpc, hb_node, hb_result, store,
                   inbox, unregSent, teardowns, hb_req>>

\* lines 460-461, 464: the with-body ends, the generator goes on after yield
scope_exit ==
    /\ pc = "idle"
    /\ scope = "open"
    /\ finally_block("normal")
    /\ LeaveBody

\* lines 462-464: the with-body raises an Exception, thrown in at the yield
scope_raise ==
    /\ pc = "idle"
    /\ scope = "open"
    /\ finally_block("exception")
    /\ LeaveBody

(***************************************************************************)
(* Helpers on dicts and on the per-id request counts.                      *)
(***************************************************************************)
\* dict d with d[k] = v
Put(d, k, v) == [x \in DOMAIN d \cup {k} |-> IF x = k THEN v ELSE d[x]]

Done(p) == \A id \in ObjectIds : p[id] = 0

(***************************************************************************)
(* receive                                                                 *)
(***************************************************************************)
\* What the SuperLink can put in PullMessagesResponse.messages_list: nothing,
\* or one of the messages it holds (addressed to this node or not).
PullMessagesResponses == {<<>>} \cup {<<message_to_proto(m)>> : m \in inbox}

\* res.message_object_trees[0]: the tree pushed with the message.
message_object_tree(m) == get_object_tree(Objects[m])

\* Variant: the destination of the message is not looked at.
message_proto_unchecked(messages_list) ==
    IF Len(messages_list) = 0 THEN None
    ELSE messages_list[1].message_id

\* lines 312-318: the first message of the response, dropped (None) if it is
\* not addressed to this node
message_proto(messages_list) ==
    IF Len(messages_list) = 0 THEN None
    ELSE IF ~(messages_list[1].dst_node_id = node) THEN None
    ELSE messages_list[1].message_id

\* line 339: [tree.object_id for tree in iterate_object_tree(object_tree)]
pull_object_ids(object_tree) ==
    LET trees == iterate_object_tree(object_tree)
    IN  [i \in DOMAIN trees |-> trees[i].object_id]

\* pull_objects (flwr.common.inflatable_utils): every id of the list is
\* fetched once, however often the list names it.
pull_objects(object_ids) ==
    [id \in ObjectIds |-> IF Count(object_ids, id) > 0 THEN 1 ELSE 0]

\* lines 299-326: no node: None.  Else pull-messages; no response, no message
\* or a message for another node: None.  Else the objects are to be pulled.
receive_begin ==
    /\ pc = "idle"
    /\ scope = "open"
    /\ in_message' = {}
    /\ contents' = NoContents
    /\ objreqs' = NoIds
    /\ confirms' = 0
    /\ listed' = {}
    /\ push_failed' = FALSE
    /\ IF node = None
       THEN /\ ret' = Ret("receive", None, "no_request")
            /\ msg' = None
            /\ pending' = NoIds
            /\ pulled' = <<>>
            /\ req' = NoReq
            /\ UNCHANGED pc
       ELSE \E res \in Responses, messages_list \in PullMessagesResponses :
            /\ req' = Request(PATH_PULL_MESSAGES, retry_default, <<>>)
            /\ pulled' = IF _request(res) = None THEN <<>> ELSE messages_list
            /\ IF _request(res) = None \/ message_proto(messages_list) = None
              THEN /\ ret' = Ret("receive", None, Got(res))
                   /\ msg' = None
                   /\ pending' = NoIds
                   /\ UNCHANGED pc
              ELSE /\ msg' = message_proto(messages_list)
                   /\ pending' = pull_objects(pull_object_ids(
                                     message_object_tree(message_proto(messages_list))))
                   /\ pc' = "rx_pull"
                   /\ ret' = Ret("receive", "running", "response")
    /\ UNCHANGED <<node, hb_running, hbpc, hb_node, hb_result, store, inbox,
                   unregSent, sess, hb_req>>

\* lines 328-345 and 355-363: one pull-object request.  No response: fn raises
\* ValueError, pull_objects gives up, the handler of line 355 logs, and line
\* 362 reads all_object_contents, which was never bound: UnboundLocalError.
\* The SuperLink answers only for an object it holds.
receive_pull ==
    /\ pc = "rx_pull"
    /\ \E id \in ObjectIds, res \in Responses :
         /\ pending[id] > 0
         /\ id \notin DOMAIN store => ~Handled(res)
         /\ objreqs' = [objreqs EXCEPT ![id] = @ + 1]
         /\ req' = Request(PATH_PULL_OBJECT, retry_default, <<>>)
         /\ IF _request(res) = None
            THEN /\ ret' = Ret("receive", "UnboundLocalError", "no_response")
                 /\ pc' = "idle"
                 /\ UNCHANGED <<contents, pending>>
            ELSE /\ contents' = Put(contents, id, store[id])
                 /\ pending' = [pending EXCEPT ![id] = @ - 1]
                 /\ pc' = IF Done(pending') THEN "rx_confirm" ELSE "rx_pull"
                 /\ UNCHANGED ret
    /\ UNCHANGED <<node, hb_running, hbpc, hb_node, hb_result, store, inbox,
                   msg, in_message, pulled, confirms, listed, push_failed,
                   unregSent, sess, hb_req>>

\* lines 361-366: inflate the message, inject its message id
inflate_message(msg_id, all_object_contents) ==
    [message_id |-> msg_id,
     object |-> inflate_object_from_contents(msg_id, all_object_contents)]

\* Variant: without a response to the confirmation receive returns None.
receive_result_if_confirmed(res) ==
    IF _request(res) = None THEN None ELSE "Message"

\* lines 348-368: the response to the confirmation is not looked at
receive_result(res) == "Message"

\* lines 347-368: confirm-message-received, then inflate and return the
\* message
receive_confirm ==
    /\ pc = "rx_confirm"
    /\ \E res \in Responses :
         /\ inbox' = IF Handled(res) THEN inbox \ {msg} ELSE inbox
         /\ ret' = Ret("receive", receive_result(res), Got(res))
    /\ req' = Request(PATH_CONFIRM_MESSAGE_RECEIVED, retry_default, <<>>)
    /\ confirms' = confirms + 1
    /\ in_message' = {inflate_message(msg, contents)}
    /\ pc' = "idle"
    /\ UNCHANGED <<node, hb_running, hbpc, hb_node, hb_result, store, msg,
                   pulled, pending, contents, objreqs, listed, push_failed,
                   unregSent, sess, hb_req>>

(***************************************************************************)
(* send                                                                    *)
(***************************************************************************)
\* SuperLink: the ids of the pushed tree it does not hold, in tree order.
MissingIds(object_tree) ==
    SelectSeq(pull_object_ids(object_tree), LAMBDA id : id \notin DOMAIN store)

\* SuperLink: PushMessagesResponse.objects_to_push, a map message id -> ids.
\* It has the entry of the pushed message (which may be left out when nothing
\* is missing) and may have the entry of another message, one that names the
\* objects of this tree.
ObjectsToPush(message) ==
    LET object_tree == get_object_tree(Objects[message])
        missing == MissingIds(object_tree)
        m2      == CHOOSE m \in Msgs : m # message
        own     == {[m \in {message} |-> missing]}
                     \cup (IF missing = <<>> THEN {[m \in {} |-> <<>>]} ELSE {})
        other   == {[m \in {} |-> <<>>], [m \in {m2} |-> pull_object_ids(object_tree)]}
    IN  {[m \in DOMAIN o \cup DOMAIN e |-> IF m \in DOMAIN o THEN o[m] ELSE e[m]] :
           o \in own, e \in other}

\* res.objects_to_push[message.object_id].object_ids (a missing key reads as
\* an empty list)
object_ids_of(objects_to_push, message_id) ==
    IF message_id \in DOMAIN objects_to_push
    THEN objects_to_push[message_id]
    ELSE <<>>

\* Variant: the map is read under a key it does not have.
objs_to_push_wrong_key(objects_to_push, message_id) ==
    [id \in ObjectIds |->
       IF Count(object_ids_of(objects_to_push, None), id) > 0 THEN 1 ELSE 0]

\* Variant: the ids of every entry of the map.
objs_to_push_all_entries(objects_to_push, message_id) ==
    [id \in ObjectIds |->
       IF \E m \in DOMAIN objects_to_push : Count(objects_to_push[m], id) > 0
       THEN 1 ELSE 0]

\* Variant: the list as it came, not made a set.
objs_to_push_list(objects_to_push, message_id) ==
    [id \in ObjectIds |-> Count(object_ids_of(objects_to_push, message_id), id)]

\* line 403: set(res.objects_to_push[message.object_id].object_ids), as the
\* number of times each id is in the collection
objs_to_push(objects_to_push, message_id) ==
    [id \in ObjectIds |->
       IF Count(object_ids_of(objects_to_push, message_id), id) > 0 THEN 1 ELSE 0]

\* push_objects (flwr.common.inflatable_utils): a push for every id to push
\* that is an object of the message.
push_objects(all_objects, object_ids_to_push) ==
    [id \in ObjectIds |->
       IF id \in DOMAIN all_objects THEN object_ids_to_push[id] ELSE 0]

\* Variant: the ValueError of a failed push is not caught.
send_result_uncaught(failed) == IF failed THEN "ValueError" ELSE None

\* lines 415-432: push_objects has returned, or raised the ValueError of a
\* failed push, which is caught and logged: send returns None either way
send_result(failed) == None

\* lines 373-403: no node: return.  Else push-messages; no response or nothing
\* to push: return.  Else the listed objects are to be pushed.
send_begin ==
    /\ pc = "idle"
    /\ scope = "open"
    /\ in_message' = {}
    /\ contents' = NoContents
    /\ objreqs' = NoIds
    /\ confirms' = 0
    /\ push_failed' = FALSE
    /\ pulled' = <<>>
    /\ \E message \in Msgs :
         IF node = None
         THEN /\ ret' = Ret("send", None, "no_request")
              /\ msg' = None
              /\ pending' = NoIds
              /\ listed' = {}
              /\ req' = NoReq
              /\ UNCHANGED <<pc, inbox>>
         ELSE \E res \in Responses, objects_to_push \in ObjectsToPush(message) :
                LET all_objects == get_all_nested_objects(Objects[message])
                    todo == push_objects(all_objects,
                                         objs_to_push(objects_to_push, message))
                IN  /\ inbox' = IF Handled(res) THEN inbox \cup {message} ELSE inbox
                    /\ msg' = message
                    /\ req' = Request(PATH_PUSH_MESSAGES, retry_default, <<>>)
                    /\ listed' = IF _request(res) = None THEN {}
                                  ELSE Range(object_ids_of(objects_to_push, message))
                    /\ IF _request(res) = None \/ DOMAIN objects_to_push = {}
                       THEN /\ ret' = Ret("send", None, Got(res))
                            /\ pending' = NoIds
                            /\ UNCHANGED pc
                       ELSE /\ pending' = todo
                            /\ IF Done(todo)
                               THEN /\ ret' = Ret("send", send_result(FALSE), "response")
                                    /\ UNCHANGED pc
                               ELSE /\ ret' = Ret("send", "running", "response")
                                    /\ pc' = "tx_push"
    /\ UNCHANGED <<node, hb_running, hbpc, hb_node, hb_result, store, unregSent,
                   sess, hb_req>>

\* lines 405-424: one push-object request with the object's deflated bytes.
\* No response: fn raises ValueError; the failure is recorded and the other
\* ids are still pushed.
send_push ==
    /\ pc = "tx_push"
    /\ \E id \in ObjectIds, res \in Responses :
         LET all_objects == get_all_nested_objects(Objects[msg])
         IN  /\ pending[id] > 0
             /\ objreqs' = [objreqs EXCEPT ![id] = @ + 1]
             /\ req' = Request(PATH_PUSH_OBJECT, retry_default, <<>>)
             /\ store' = IF Handled(res)
                         THEN Put(store, id, deflate(all_objects[id]))
                         ELSE store
             /\ push_failed' = (push_failed \/ _request(res) = None)
             /\ pending' = [pending EXCEPT ![id] = @ - 1]
             /\ IF Done(pending')
                THEN /\ ret' = Ret("send", send_result(push_failed'), Got(res))
                     /\ pc' = "idle"
                ELSE /\ ret' = Ret("send", "running", Got(res))
                     /\ UNCHANGED pc
    /\ UNCHANGED <<node, hb_running, hbpc, hb_node, hb_result, inbox, msg,
                   in_message, pulled, contents, confirms, listed, unregSent,
                   sess, hb_req>>

(***************************************************************************)
(* get_run, get_fab                                                        *)
(***************************************************************************)
\* lines 440-443: no response: an empty Run; else the Run of the response
get_run_result(res) ==
    IF _request(res) = None THEN "Run.create_empty" ELSE "Run"

\* Variant: a get-run request without response drops the node.
get_run_forgets_node ==
    /\ pc = "idle"
    /\ scope = "open"
    /\ \E res \in Responses :
         /\ ret' = Ret("get_run", get_run_result(res), Got(res))
         /\ node' = IF _request(res) = None THEN None ELSE node
    /\ req' = Request(PATH_GET_RUN, retry_default, <<>>)
    /\ FreshCall
    /\ UNCHANGED <<hb_running, pc, hbpc, hb_node, hb_result, store, inbox,
                   unregSent, sess, hb_req>>

\* lines 436-443: one get-run request, whatever `node` is
get_run ==
    /\ pc = "idle"
    /\ scope = "open"
    /\ \E res \in Responses :
         ret' = Ret("get_run", get_run_result(res), Got(res))
    /\ req' = Request(PATH_GET_RUN, retry_default, <<>>)
    /\ FreshCall
    /\ UNCHANGED <<node, hb_running, pc, hbpc, hb_node, hb_result, store,
                   inbox, unregSent, sess, hb_req>>

\* lines 451-457: no response: Fab("", b""); else the Fab of the response
get_fab_result(res) ==
    IF _request(res) = None THEN "Fab('', b'')" ELSE "Fab"

\* lines 447-457: one get-fab request, whatever `node` is
get_fab ==
    /\ pc = "idle"
    /\ scope = "open"
    /\ \E res \in Responses :
         ret' = Ret("get_fab", get_fab_result(res), Got(res))
    /\ req' = Request(PATH_GET_FAB, retry_default, <<>>)
    /\ FreshCall
    /\ UNCHANGED <<node, hb_running, pc, hbpc, hb_node, hb_result, store,
                   inbox, unregSent, sess, hb_req>>

Next ==
    \/ send_node_heartbeat_begin
    \/ send_node_heartbeat_request
    \/ create_node
    \/ create_node_start
    \/ delete_node_begin
    \/ delete_node_send
    \/ delete_node_response
    \/ delete_node_gave_up
    \/ get_run
    \/ get_fab
    \/ scope_exit
    \/ scope_raise
    \/ receive_begin
    \/ receive_pull
    \/ receive_confirm
    \/ send_begin
    \/ send_push

Spec == Init /\ [][Next]_vars

(***************************************************************************)
(* _request on its own: every api path, with and without the retry         *)
(* invoker, on every response.                                             *)
(***************************************************************************)
\* RetryInvoker.invoke(post): the response of post
retry_invoker_invoke(res) == res

\* lines 204-230: the response comes through the retry invoker or from
\* post() itself, then it is checked
_request_retry(res, retry) ==
    _request(IF retry THEN retry_invoker_invoke(res) ELSE res)

request_call ==
    /\ \E api_path \in Paths, retry \in BOOLEAN, res \in Responses :
         /\ req' = Request(api_path, retry, <<res>>)
         /\ ret' = Ret("_request", _request_retry(res, retry), Got(res))
    /\ UNCHANGED <<node, hb_running, pc, hbpc, hb_node, hb_result, store,
                   inbox, msg, in_message, pulled, pending, contents, objreqs,
                   confirms, listed, push_failed, unregSent, sess, hb_req>>

NextRequest == request_call

SpecRequest == Init /\ [][NextRequest]_vars

(***************************************************************************)
(* The properties.                                                         *)
(***************************************************************************)
\* receive: a pull-object request was made for an id whose content never
\* arrived.
FetchFailed == \E id \in ObjectIds : objreqs[id] > 0 /\ id \notin DOMAIN contents

\* The object ids of the tree of message m.
TreeIds(m) == DOMAIN get_all_nested_objects(Objects[m])

\* C1: whenever delete_node() has returned, the node identity is absent,
\* whether or not the unregister request obtained a response.
C1_IdentityAbsentAfterDelete ==
    (ret = Ret("delete_node", None, ret.res) /\ pc = "idle") => node = None

\* C2: a receive() in which the fetch of an object failed returns absent: no
\* message, and no error raised into the caller.
C2_FailedFetchReturnsAbsent ==
    (ret.op = "receive" /\ pc = "idle" /\ FetchFailed)
        => (ret.val = None /\ in_message = {})

\* C3: between calls of the with-body, the heartbeat sender is running if and
\* only if a node identity is stored.
C3_HeartbeatIffIdentity ==
    (pc = "idle" /\ scope = "open") => (hb_running <=> node # None)

\* C4: once the unregister request of delete_node() is sent, and until a later
\* successful create_node(), the heartbeat sender is stopped with no probe
\* under way, and no heartbeat request is issued.
C4_NoProbeAfterUnregister ==
    /\ [](unregSent => (~hb_running /\ hbpc = "idle"))
    /\ [][(hbpc = "sending" /\ hbpc' = "idle") => ~unregSent]_vars

\* C4 witness: a probe had succeeded, then delete_node() sent its request and
\* returned.
C4_Witness ==
    /\ unregSent
    /\ hb_result = "True"
    /\ pc = "idle"
    /\ ret.op = "delete_node"

\* C5: a create_node() whose request yields no response returns absent, stores
\* no node identity and does not start the heartbeat sender.
C5_FailedCreateStoresNothing ==
    [][(ret'.op = "create_node" /\ ret'.res = "no_response")
          => (ret'.val = None /\ node' = node /\ hb_running' = hb_running)]_vars

\* C5 witness: create_node() got no response; no identity, no heartbeat.
C5_Witness ==
    /\ ret = Ret("create_node", None, "no_response")
    /\ node = None
    /\ ~hb_running

\* C6: round trip.  A send() whose requests all got a response leaves the
\* message and every object of its tree, byte for byte, with the SuperLink; a
\* receive() of a message addressed to the node whose fetches all succeed
\* returns a message; and the message it returns has the content of the
\* original, for every number of objects.
C6_RoundTrip ==
    /\ (ret.op = "send" /\ pc = "idle" /\ msg # None /\ ret.res = "response"
          /\ ~push_failed)
         => /\ msg \in inbox
            /\ \A id \in TreeIds(msg) :
                 id \in DOMAIN store /\ store[id] = deflate(Objects[id])
    /\ (ret.op = "receive" /\ pc = "idle" /\ pulled # <<>> /\ ~FetchFailed)
         => (pulled[1].dst_node_id = node => ret.val = "Message")
    /\ (ret.op = "receive" /\ ret.val = "Message")
         => in_message = {[message_id |-> pulled[1].message_id,
                           object |-> Objects[pulled[1].message_id]]}

\* C6 witness: receive() returned the message m3 (three objects, one of them
\* referenced twice) with its original content.
C6_Witness ==
    /\ ret.op = "receive"
    /\ ret.val = "Message"
    /\ in_message = {[message_id |-> "m3", object |-> ObjM3]}

\* C7: receive() returns a message only if the pull-messages response held a
\* message addressed to this node; on an empty response or a message for
\* another node it returns absent and makes no pull-object and no confirm
\* request.
C7_OnlyOwnMessages ==
    ret.op = "receive" =>
        /\ ret.val # None =>
             /\ pulled # <<>>
             /\ pulled[1].dst_node_id = node
             /\ \A m \in in_message : m.message_id = pulled[1].message_id
        /\ (pulled = <<>> \/ pulled[1].dst_node_id # node) =>
             /\ ret.val = None
             /\ in_message = {}
             /\ objreqs = NoIds
             /\ confirms = 0

\* C7 witness: the response held a message for another node and receive()
\* returned absent.
C7_Witness ==
    /\ ret.op = "receive"
    /\ pulled # <<>>
    /\ pulled[1].dst_node_id # node
    /\ ret.val = None

\* C8: send() makes a push-object request for an id only if the push-messages
\* response listed the id as missing for this message (nothing is listed when
\* there was no response).
C8_PushOnlyListed ==
    ret.op = "send" => \A id \in ObjectIds : objreqs[id] > 0 => id \in listed

\* C8 witness: send() of m3 pushed m3 and left c1, which the SuperLink held,
\* alone.
C8_Witness ==
    /\ ret.op = "send"
    /\ pc = "idle"
    /\ msg = "m3"
    /\ objreqs["m3"] = 1
    /\ objreqs["c1"] = 0

\* C9: a send() in which a push failed has still made a push-object request
\* for every id declared missing, and returns normally.
C9_PushesGoOnAfterFailure ==
    (ret.op = "send" /\ pc = "idle" /\ push_failed)
        => /\ ret.val = None
           /\ \A id \in listed : objreqs[id] >= 1

\* C9 witness: three ids were declared missing; a push failed and its object
\* did not reach the SuperLink, another one did.
C9_Witness ==
    /\ ret.op = "send"
    /\ pc = "idle"
    /\ push_failed
    /\ Cardinality(listed) = 3
    /\ \E id \in listed : id \notin DOMAIN store
    /\ \E id \in listed : id \in DOMAIN store

\* C10: within one receive() or send() no object id is requested twice, and a
\* receive() that returns a message has fetched every id of its tree exactly
\* once, also an id the tree references from two branches.
C10_OncePerId ==
    /\ \A id \in ObjectIds : objreqs[id] <= 1
    /\ (ret.op = "receive" /\ ret.val = "Message")
         => \A id \in TreeIds(msg) : objreqs[id] = 1

\* C10 witness: receive() returned m3, whose tree references c1 twice.
C10_Witness ==
    /\ ret.op = "receive"
    /\ ret.val = "Message"
    /\ msg = "m3"
    /\ Count(pull_object_ids(message_object_tree("m3")), "c1") = 2
    /\ objreqs["c1"] = 1

C12_OneTryForLastUnregister ==
    /\ scope \in {"finally", "teardown"} => max_tries = {1}
    /\ (teardowns = 1 /\ req.path = PATH_DELETE_NODE)
         => (req.retry /\ req.max_tries = {1})

\* C12 witness: the delete-node request of the finally block went out with
\* one try, the try failed, and the context manager has ended.
C12_Witness ==
    /\ scope = "closed"
    /\ teardowns = 1
    /\ req = [path |-> PATH_DELETE_NODE, retry |-> TRUE, max_tries |-> {1},
              response |-> <<>>]
    /\ ret.val = "RequestsConnectionError"

\* C13: an Exception raised in the with-body is caught and does not leave the
\* context manager; if a node is stored then, delete_node() is called by the
\* finally block, once.
C13_ExceptionCaughtOneTeardown ==
    /\ scope # "raised"
    /\ teardowns <= 1
    /\ exit_kind = "exception"
         => /\ scope = "finally" => (node # None /\ teardowns = 0)
            /\ scope = "teardown" => teardowns = 1
            /\ scope = "closed" => (teardowns = 1 \/ node = None)

\* C13 witness: the with-body raised while a node was stored; the finally
\* block called delete_node(), which got its response; the context manager
\* has ended.
C13_Witness ==
    /\ exit_kind = "exception"
    /\ scope = "closed"
    /\ teardowns = 1
    /\ ret = Ret("delete_node", None, "response")
    /\ node = None

\* C14: with no node stored, receive(), send() and delete_node() make no
\* request, return None without raising, and leave the node, the heartbeat
\* sender and max_tries as they are.
C14_NoNodeNoEffect ==
    [][(/\ node = None
        /\ pc = "idle"
        /\ scope = "open"
        /\ hbpc' = hbpc
        /\ hb_req' = hb_req
        /\ ret'.op \in {"receive", "send", "delete_node"})
          => /\ ret' = Ret(ret'.op, None, "no_request")
             /\ req' = NoReq
             /\ pc' = "idle"
             /\ node' = node
             /\ hb_running' = hb_running
             /\ max_tries' = max_tries
             /\ scope' = scope
             /\ store' = store
             /\ inbox' = inbox]_vars

\* C14 witness: send() returned None without a request, with no node stored,
\* after a session in which a message had been sent.
C14_Witness ==
    /\ node = None
    /\ ret = Ret("send", None, "no_request")
    /\ req = NoReq
    /\ inbox # {}
    /\ ~hb_running

\* C15: _request returns a decoded response only for status 200 with a
\* content-type header that is application/protobuf; another status, a
\* missing header and another content-type all give None, with and without
\* the retry invoker.
C15_DecodedOnlyIfOkProtobuf ==
    req.response # <<>>
      => LET res == req.response[1]
         IN  IF res.status_code = 200 /\ res.content_type = "application/protobuf"
             THEN ret.val # None
             ELSE ret.val = None

\* C15 witness: a response with status 200 and another content-type, to a
\* request made without the retry invoker, gave None.
C15_Witness ==
    /\ req.response = <<[status_code |-> 200, content_type |-> "text/html"]>>
    /\ ~req.retry
    /\ ret = Ret("_request", None, "no_response")

\* C16: the stored node changes only in create_node() and delete_node();
\* receive(), send(), get_run(), get_fab() and send_node_heartbeat leave it as
\* it is on every path.
C16_NodeSetOnlyByCreateDelete ==
    [][node' # node
          => \/ (pc = "idle" /\ pc' = "cn_start" /\ ret'.op = "create_node")
             \/ (pc = "dn_wait" /\ pc' = "idle" /\ ret'.op = "delete_node")]_vars

\* C16 witness: with a node stored, a probe and then get_run() got no
\* response; the node is still there.
C16_Witness ==
    /\ ret = Ret("get_run", "Run.create_empty", "no_response")
    /\ hb_req.got = "no_response"
    /\ node # None

\* C17: in every interleaving of the heartbeat thread with create_node() and
\* delete_node(), the heartbeat sender runs only while a node is stored, and
\* a heartbeat request that goes out carries the node stored at that moment,
\* one for which no delete-node request has been sent.
C17_ProbeCarriesStoredNode ==
    /\ [](hb_running => node # None)
    /\ [][(hbpc = "sending" /\ hbpc' = "idle")
             => (hb_node = node /\ node # None /\ ~unregSent)]_vars

\* C18: confirm-message-received is sent at most once in a receive(), and only
\* after every object id of the tree has been fetched; a confirmation without
\* response does not keep receive() from returning the message.
C18_ConfirmOnceAfterAllFetched ==
    /\ confirms <= 1
    /\ confirms = 1
         => /\ ret.op = "receive"
            /\ \A id \in TreeIds(msg) : id \in DOMAIN contents /\ objreqs[id] = 1
    /\ (confirms = 1 /\ ret.res = "no_response")
         => (ret.val = "Message" /\ in_message # {})

\* C18 witness: receive() returned a message of several objects although its
\* confirmation got no response.
C18_Witness ==
    /\ ret = Ret("receive", "Message", "no_response")
    /\ confirms = 1
    /\ Cardinality(TreeIds(msg)) > 1
    /\ msg \in inbox

\* C19: a send_node_heartbeat call that has a node makes one request, not
\* through the retry invoker; every other request (create-node, delete-node,
\* pull-messages, push-messages, pull-object, push-object, confirm, get-run,
\* get-fab) goes through the retry invoker.
C19_OnlyHeartbeatUnretried ==
    /\ hb_req.posts <= 1
    /\ hb_result # "None" => (hb_req.posts = 1 /\ ~hb_req.retry)
    /\ req.path # "none"
         => /\ req.retry
            /\ req.path \in Paths \ {PATH_SEND_NODE_HEARTBEAT}

\* C19 witness: a probe has made its one request and succeeded; the latest
\* request of send() was a push-object through the retry invoker.
C19_Witness ==
    /\ hb_result = "True"
    /\ hb_req = [posts |-> 1, retry |-> FALSE, got |-> "ack"]
    /\ req.path = PATH_PUSH_OBJECT
    /\ req.retry

\* C20: over any sequence of create_node(), delete_node() and the end of the
\* with-body, start and stop of the heartbeat sender alternate: start is not
\* called while it runs, stop is not called while it does not run.
C20_StartStopAlternate ==
    [][/\ (pc = "cn_start" /\ pc' = "idle") => ~hb_running
       /\ (pc = "idle" /\ pc' = "dn_stopped") => hb_running]_vars

====
